---- MODULE Spec2Model ----
(***************************************************************************)
(* Model of the scheduled collection-processing pipeline of                *)
(* babylon_features: the Daemon loop (daemon.py), the UnitOfWork scan      *)
(* session (datalake/uow.py), collection discovery (mongo_factory.py),     *)
(* the CollectionProcessor entry point (features_pipeline/processor.py)    *)
(* and the RagCollection buffer (rag/documents/document_manager.py).       *)
(*                                                                         *)
(* Time is a discrete clock `now` (time.time()): discovery and the         *)
(* processing of a collection take 0..MaxStepDur seconds each; the calls   *)
(* on the data lake may raise.                                             *)
(***************************************************************************)
EXTENDS Integers, Sequences, FiniteSets, TLC

(***************************************************************************)
(* Bounds of the model.                                                    *)
(***************************************************************************)
MaxTicks == 2
MaxStepDur == 1
MaxOversleep == 1
MaxCalls == 4
MaxRecords == 2
MaxProcessCalls == 2

(***************************************************************************)
(* Program constants.                                                      *)
(***************************************************************************)
PROCESS_MAX_RAG_DOCUMENTS == 500

(***************************************************************************)
(* Inputs.                                                                 *)
(***************************************************************************)
\* daemon_config['MIN_LOOP_SECONDS'] values explored
MinLoopChoices == {1, 3}
\* daemon_config['DATALAKE_COLLECTION_PREFIX'] values explored; a name is a
\* sequence of characters
PrefixChoices == { <<>>, <<"t">> }
\* what client[db].list_collections() may return, in the lake's order
LakeListings ==
    { <<>>,
      << <<"t", "1">> >>,
      << <<"t", "1">>, <<"x">>, <<"t", "2">> >> }
\* documents a caller may hand to the buffer
Docs == {"d1", "d2"}
\* lengths of the lists handed to RagCollection.add_documents
AddSizes == {0, 1, 2, 250, 498, 499, 500}

VARIABLES
    \* ---- Daemon ----
    running,            \* Daemon._running
    min_loop_seconds,   \* Daemon._min_loop_seconds
    collection_prefix,  \* Daemon._collection_prefix
    pc,                 \* position of the main thread
    now,                \* time.time()
    start_time,         \* local start_time of run()
    duration,           \* local duration of run()
    sleep_time,         \* local sleep_time of run()
    exc,                \* exception currently propagating, "none" if none
    colls,              \* collections of the for loop not yet processed
    batch_number,       \* CollectionProcessor._batch_number
    \* ---- UnitOfWork / data lake session ----
    open_sessions,      \* sessions started and not ended
    txn,                \* transaction state of the current session
    scope,              \* "out", "in" (inside the with body), "exited"
    scope_exc,          \* exception that propagated through the with body
    scope_result,       \* how the with statement was left
    commit_calls,       \* commit_transaction calls of the current scope
    abort_calls,        \* abort_transaction calls of the current scope
    end_calls,          \* end_session calls of the current scope
    \* ---- observations of the run ----
    ticks,              \* ticks started so far
    prev_start,         \* start_time of the previous tick, -1 if none
    prev_tick,          \* what the previous tick observed (caught, read_error)
    timing_log,         \* what the timing branch of the tick logged
    slept,              \* the tick called time.sleep
    read_error,         \* reading a collection's records raised in this tick
    caught,             \* the except clause of run() caught in this tick
    stop_requested,     \* a stop signal was given
    \* ---- RagCollection ----
    documents,          \* RagCollection.documents
    buf_calls,          \* calls made on the buffer
    last_call,          \* the last call on the buffer and its outcome
    \* ---- CollectionProcessor.process ----
    proc,               \* the current / last invocation of process
    discovered,         \* what list_collections returned in this scope
    processed,          \* collections whose process call returned in this scope
    listing,            \* what the lake listed to list_collections in this scope
    failed,             \* collection whose process call raised in the last cycle
    process_calls,      \* process invocations made so far
    \* ---- vector store, document builder ----
    index,              \* number of write calls the vector store has taken
    built,              \* the last call of the document builder, its outcome
    \* ---- data lake access, iterator, timeout decorator ----
    factory,            \* MongoClientFactory: the cached client, the last call
    lake,               \* a Datalake object: its client and database handle
    manager,            \* BabylonDocumentsManager: the cached instance
    iter,               \* a DocumentsIter over a DocumentsCollection
    timer               \* a call of a method wrapped by timeout_decorator

daemon_vars == << running, min_loop_seconds, collection_prefix, pc, now,
                  start_time, duration, sleep_time, exc, colls, batch_number,
                  open_sessions, txn, scope, scope_exc, scope_result,
                  commit_calls, abort_calls, end_calls, ticks, prev_start,
                  prev_tick, timing_log, slept, read_error, caught, stop_requested >>
buffer_vars == << documents, buf_calls, last_call >>
process_vars == << proc, discovered, processed >>
cycle_vars == << listing, failed, process_calls >>
sink_vars == << index, built >>
component_vars == << factory, lake, manager, iter, timer >>
vars == << running, min_loop_seconds, collection_prefix, pc, now,
           start_time, duration, sleep_time, exc, colls, batch_number,
           open_sessions, txn, scope, scope_exc, scope_result,
           commit_calls, abort_calls, end_calls, ticks, prev_start,
           prev_tick, timing_log, slept, read_error, caught, stop_requested,
           documents, buf_calls, last_call, proc, discovered, processed,
           listing, failed, process_calls, index, built,
           factory, lake, manager, iter, timer >>

(***************************************************************************)
(* Helpers.                                                                *)
(***************************************************************************)
Rep(d, k) == [i \in 1..k |-> d]

RECURSIVE SelectSeqOrdered(_, _)
SelectSeqOrdered(s, prefix) ==
    IF s = <<>> THEN <<>>
    ELSE LET h == Head(s)
             keep == /\ Len(h) >= Len(prefix)
                     /\ SubSeq(h, 1, Len(prefix)) = prefix
         IN (IF keep THEN <<h>> ELSE <<>>) \o SelectSeqOrdered(Tail(s), prefix)

\* MongoClientFactory.list_collections
list_collections_NoFilter(names, prefix) == names
list_collections(names, prefix) ==
    IF prefix = <<>> THEN names
    ELSE SelectSeqOrdered(names, prefix)

\* run(): sleep_time = self._min_loop_seconds - duration
SleepTime_NoFloor(min, d) == 0
SleepTime(min, d) == min - d

\* run(): if sleep_time > 0
ShouldSleep_Inclusive(st) == st >= 0
ShouldSleep(st) == st > 0

\* run(): except Exception as e
Catches_Nothing(e) == FALSE
Catches(e) == e = "Exception"

\* UnitOfWork.__enter__: self.session.start_transaction() puts the session
\* in a transaction
start_transaction_Skipped(t) == t
start_transaction(t) == "active"

\* UnitOfWork.__exit__: if exc_type
ExitAborts_Never(e) == FALSE
ExitAborts(e) == e # "none"

\* UnitOfWork.__exit__ has no return statement: it returns None, which does
\* not suppress the exception of the with body
ExitSuppresses_Always(e) == TRUE
ExitSuppresses(e) == FALSE

\* RagCollection._check_max_size
CheckMaxSizeFails_OffByOne(len, num_added) ==
    len + num_added > PROCESS_MAX_RAG_DOCUMENTS
CheckMaxSizeFails(len, num_added) ==
    len + num_added >= PROCESS_MAX_RAG_DOCUMENTS

NoCall == [op |-> "none", arg |-> <<>>, before |-> <<>>, raised |-> FALSE,
           wrote |-> <<>>]

(***************************************************************************)
(* Records.  A raw record of the lake carries its unique id, whether it    *)
(* has every field TransactionMapper.to_domain reads, and whether its      *)
(* Amount can be formatted with :.2f.                                      *)
(***************************************************************************)
RawA == [id |-> "a", complete |-> TRUE, amount_ok |-> TRUE]
RawB == [id |-> "b", complete |-> TRUE, amount_ok |-> TRUE]
RawBadAmount == [id |-> "c", complete |-> TRUE, amount_ok |-> FALSE]
RawIncomplete == [id |-> "d", complete |-> FALSE, amount_ok |-> TRUE]

\* what a collection found by the daemon holds: two records with every
\* field (other contents are tried on process itself, see ApiRecordLists)
LakeRecordLists == { <<RawA, RawB>> }

\* what a repository handed to CollectionProcessor.process may hold
ApiRaws == {RawA, RawB, RawBadAmount, RawIncomplete}
ApiRecordLists ==
    UNION { [1..n -> ApiRaws] : n \in 0..MaxRecords }
    \cup { Rep(RawA, PROCESS_MAX_RAG_DOCUMENTS - 1),
           Rep(RawA, PROCESS_MAX_RAG_DOCUMENTS) }

\* the mapper of the repository: TransactionRepository always maps with
\* TransactionMapper ("dto"); BaseRepository takes any mapper: "dict" is one
\* that hands the stored mapping on, "record" one that wraps it in a mapping
\* with an id attribute
MapperKinds == {"dto", "dict", "record"}

\* TransactionMapper.to_domain: doc["_id"], doc["Amount"], ... raise KeyError
\* when the field is absent
ToDomainRaises(raw) == ~raw.complete
to_domain(raw) == [id |-> raw.id, kind |-> "dto", amount_ok |-> raw.amount_ok]

\* TransactionRepository.get_by_filter / BaseRepository.get_by_filter
GetByFilterRaises(repo) ==
    /\ repo.kind = "dto"
    /\ \E i \in 1..Len(repo.raws) : ToDomainRaises(repo.raws[i])
get_by_filter(repo) ==
    [i \in 1..Len(repo.raws) |->
        IF repo.kind = "dto" THEN to_domain(repo.raws[i])
        ELSE [id |-> repo.raws[i].id, kind |-> repo.kind,
              amount_ok |-> repo.raws[i].amount_ok]]

\* get_by_filter: the cursor of self._collection.find(...) after the list
\* comprehension.  The driver closes a cursor it has exhausted and one whose
\* fetch failed; get_by_filter itself never closes it, so it stays open when
\* to_domain raises before the last record was fetched.
CursorAfterRead(repo, fails) ==
    IF fails THEN "closed"
    ELSE IF \E k \in 1..(Len(repo.raws) - 1) :
               repo.kind = "dto" /\ ToDomainRaises(repo.raws[k])
         THEN "open"
         ELSE "closed"

\* build_langchain_document(source, collection): source.pop("_id", None)
\* needs a mapping (a TransactionDto has no pop: AttributeError), and
\* build_document_content formats Amount with :.2f
HasPop(source) == source.kind \in {"dict", "record"}
BuildRaises(source) == ~HasPop(source) \/ ~source.amount_ok
\* the Document built from a record is identified by the record's id
build_langchain_document(source) == source.id

\* process(): `except Exception` around add_documents([build(...)]) catches
\* what the build raises ("mapping") and what _check_max_size raises
\* ("capacity")
LoopCatches(kind) == kind \in {"mapping", "capacity"}

\* process(): the handler formats its message with transaction.id, which a
\* plain dict does not have (AttributeError, raised out of the handler)
HasId(source) == source.kind \in {"dto", "record"}

\* process(): `for transaction in transactions` is over once all n records
\* were handled; only then vectorize is called
LoopEnds_AfterFirst(i, n) == i >= 1 \/ i = n
LoopEnds(i, n) == i = n

\* Daemon.__process: `for collection_name in colls` is over every name
\* list_collections returned, whatever failed in an earlier cycle
ToProcess_SkipFailed(names, f) == SelectSeq(names, LAMBDA n : n # f)
ToProcess(names, f) == names

\* CollectionProcessor.__update_batch_number: self._batch_number += 1
update_batch_number_PerCycle(n) == 1
update_batch_number(n) == n + 1


\* Daemon.__process: `for collection_name in colls` goes on with the
\* collections after the one just processed
NextColls_SkipOne(cs) == IF Len(cs) >= 2 THEN Tail(Tail(cs)) ELSE <<>>
NextColls(cs) == Tail(cs)

\* RagCollection.vectorize: vector_store.add_documents(documents=self.documents),
\* one call with the whole list
IndexWrites_PerDocument(docs) == [i \in 1..Len(docs) |-> <<docs[i]>>]
IndexWrites(docs) == <<docs>>

\* RagCollection.vectorize: outcome of a call on a buffer holding docs.
\* fails = "setup": HuggingFaceEmbeddings(...) or Chroma(...) raises, before
\* the emptiness test; fails = "write": vector_store.add_documents raises
VectorizeResult(docs, fails) ==
    [raised |-> fails # "no",
     wrote |-> IF fails = "setup" \/ docs = <<>> THEN <<>>
               ELSE IndexWrites(docs),
     documents |-> docs]

\* CollectionProcessor.__build_rag_collection: the documents of the new
\* RagCollection, `previous` being those of the RagCollection of the call
\* before: set_rag_process(..., documents=[])
build_rag_collection_Shared(previous) == previous
build_rag_collection(previous) == <<>>

\* account of one call of process: how it ended (and on which error), the
\* state of the cursor of its find, the records found and read, how many
\* were handled, skipped after a failed build and rejected by the buffer,
\* and what was flushed
NoProc == [result |-> "none", error |-> "none", caller |-> "none",
           cursor |-> "none", after_unflushed |-> FALSE,
           raws |-> <<>>, sources |-> <<>>, i |-> 0, skipped |-> 0,
           rejected |-> 0, flush_calls |-> 0, flushed |-> <<>>,
           writes |-> <<>>]

(***************************************************************************)
(* Document builder (rag/documents/document_builder.py).  A value of a     *)
(* record is [t |-> its Python type, v |-> its text]; a record handed to   *)
(* the builder is a dict (a function from its field names to values) or a  *)
(* TransactionDto, which has attributes but none of the mapping methods.   *)
(***************************************************************************)
Str(x) == [t |-> "str", v |-> x]
Num(x) == [t |-> "num", v |-> x]
ObjectId(x) == [t |-> "ObjectId", v |-> x]
ListOf(x) == [t |-> "list", v |-> x]
DictOf(x) == [t |-> "dict", v |-> x]
None == [t |-> "NoneType", v |-> "None"]
\* marks a field the record does not have
Absent == [t |-> "absent", v |-> ""]

\* values of the fields of the records explored
IdOptions == {Absent, ObjectId("68eb41ec"), Str("id1"), Str("")}
DateOptions == {Absent, Str("01/31/2023"), ListOf("[2023, 1, 31]")}
AmountOptions == {Absent, Num("-75.77"), Num("3"), Str("n/a")}
TypeOptions == {Absent, Str("DEBIT_CARD"), DictOf("{code: 1}")}
DescriptionOptions == {Absent, Str("WHOLEFDS")}
DetailsOptions == {Absent, Str("extra details"), ListOf("[a, b]"),
                   ObjectId("5f1d7f3a")}
CollectionNames == {"transactions", "test-dl-record"}
\* what uuid.uuid4().hex may return
Uuids == {"u1", "u2", "u3"}

\* the dict with the fields that are not Absent
MkDict(id, date, amount, type, description, details) ==
    LET all == [f \in {"_id", "PostingDate", "Amount", "Type", "Description",
                       "Details"} |->
                  CASE f = "_id" -> id
                    [] f = "PostingDate" -> date
                    [] f = "Amount" -> amount
                    [] f = "Type" -> type
                    [] f = "Description" -> description
                    [] OTHER -> details]
    IN [kind |-> "dict",
        fields |-> [f \in {g \in DOMAIN all : all[g] # Absent} |-> all[f]]]

\* TransactionMapper.to_domain of a record with every field
MkDto(id, date, amount, type, description) ==
    [kind |-> "dto",
     fields |-> [f \in {"id", "posting_date", "amount", "transaction_type",
                        "description"} |->
                   CASE f = "id" -> Str(id.v)
                     [] f = "posting_date" -> date
                     [] f = "amount" -> amount
                     [] f = "transaction_type" -> type
                     [] OTHER -> description]]

\* the dict with one more field
WithField(source, key, value) ==
    [source EXCEPT !.fields = [f \in DOMAIN source.fields \cup {key} |->
                                  IF f = key THEN value ELSE source.fields[f]]]

\* source.get(key, default) and source.pop(key, None) exist on a mapping
IsMapping(source) == source.kind = "dict"
Get(source, key, default) ==
    IF key \in DOMAIN source.fields THEN source.fields[key] ELSE default
Pop_KeepsKey(source, key) == source
Pop(source, key) ==
    [source EXCEPT !.fields = [f \in DOMAIN source.fields \ {key} |->
                                  source.fields[f]]]

\* str(x)
ToStr(x) == Str(x.v)

\* f"{x:.2f}": defined for numbers only
Formattable(x) == x.t = "num"
Format2f(x) ==
    CASE x.v = "0.0" -> "0.00"
      [] x.v = "3" -> "3.00"
      [] OTHER -> x.v

\* build_document_content: the four rendered parts of the text
DefaultAmount_Blank == Str("N/A")
DefaultAmount == Num("0.0")
ContentRaises(source) ==
    \/ ~IsMapping(source)
    \/ ~Formattable(Get(source, "Amount", DefaultAmount))
build_document_content(source) ==
    [PostingDate |-> Get(source, "PostingDate", Str("N/A")).v,
     Description |-> Get(source, "Description", Str("N/A")).v,
     Amount |-> Format2f(Get(source, "Amount", DefaultAmount)),
     Type |-> Get(source, "Type", Str("N/A")).v]

\* build_document_metadata: isinstance(v, (list, dict)) and
\* isinstance(v, (str, int, float, bool, type(None)))
IsComplex(x) == x.t \in {"list", "dict"}
IsSimple(x) == x.t \in {"str", "num", "bool", "NoneType"}
MetadataRaises(source) == ~IsMapping(source)
\* the keys build_document_metadata sets itself
DerivedKeys == {"source_collection", "source_document_id",
                "transaction_date", "amount", "type"}
build_document_metadata_RawWins(source, collection, source_id) ==
    [k \in DerivedKeys \cup DOMAIN source.fields |->
        IF k \in DOMAIN source.fields THEN source.fields[k]
        ELSE CASE k = "source_collection" -> Str(collection)
               [] k = "source_document_id" -> source_id
               [] k = "transaction_date" -> Get(source, "PostingDate", None)
               [] k = "amount" -> Get(source, "Amount", None)
               [] OTHER -> Get(source, "Type", None)]
build_document_metadata(source, collection, source_id) ==
    LET explicit ==
            [k \in {"source_collection", "source_document_id",
                    "transaction_date", "amount", "type"} |->
              CASE k = "source_collection" -> Str(collection)
                [] k = "source_document_id" -> source_id
                [] k = "transaction_date" -> Get(source, "PostingDate", None)
                [] k = "amount" -> Get(source, "Amount", None)
                [] OTHER -> Get(source, "Type", None)]
        others == {k \in DOMAIN source.fields \ DOMAIN explicit :
                      ~IsComplex(source.fields[k])}
        metadata ==
            [k \in DOMAIN explicit \cup others |->
              IF k \in DOMAIN explicit THEN explicit[k]
              ELSE IF IsSimple(source.fields[k]) THEN source.fields[k]
              ELSE ToStr(source.fields[k])]
    IN [k \in {j \in DOMAIN metadata : metadata[j] # None} |-> metadata[k]]

\* build_langchain_document(source, collection), uuid being what
\* create_random_uuid_hex() returns if it is called.  The outcome: whether
\* it raised, the source as the caller holds it afterwards, whether an id
\* was generated, and the Document.
NeedsUuid(source) ==
    \/ Get(source, "_id", None) = None
    \/ ToStr(Get(source, "_id", None)).v = ""
BuildLangchainDocument(source, collection, uuid) ==
    IF ~IsMapping(source)
    THEN [raised |-> TRUE, source |-> source, generated |-> FALSE,
          document |-> None]
    ELSE LET source_id == Get(source, "_id", None)
             popped == Pop(source, "_id")
             langchain_id == IF NeedsUuid(source) THEN uuid
                             ELSE ToStr(source_id).v
         IN IF ContentRaises(popped)
            THEN [raised |-> TRUE, source |-> popped,
                  generated |-> NeedsUuid(source), document |-> None]
            ELSE [raised |-> FALSE, source |-> popped,
                  generated |-> NeedsUuid(source),
                  document |->
                    [id |-> langchain_id,
                     page_content |-> build_document_content(popped),
                     metadata |-> build_document_metadata(
                                     popped, collection, ToStr(source_id))]]

\* no call of the document builder was made
NoBuilt == [op |-> "none", source |-> None, collection |-> "", result |-> None]

\* the records and collection names the builder is called with
BuilderSources ==
    { MkDict(id, date, amount, type, description, details) :
        id \in IdOptions, date \in DateOptions, amount \in AmountOptions,
        type \in TypeOptions, description \in DescriptionOptions,
        details \in DetailsOptions }
    \cup
    { MkDto(id, date, amount, type, description) :
        id \in {x \in IdOptions : x # Absent /\ x.v # ""},
        date \in {x \in DateOptions : x.t = "str"},
        amount \in {x \in AmountOptions : x.t = "num"},
        type \in {x \in TypeOptions : x.t = "str"},
        description \in {x \in DescriptionOptions : x.t = "str"} }
    \cup
    { WithField(MkDict(id, date, amount, type, Absent, Absent), k, v) :
        id \in IdOptions, date \in DateOptions, amount \in AmountOptions,
        type \in TypeOptions, k \in DerivedKeys \cup {"Details"},
        v \in {Str("raw"), None} }

(***************************************************************************)
(* Data lake access: MongoClientFactory (datalake/mongo_factory.py),       *)
(* Datalake (features_pipeline/datalake.py) and the construction of        *)
(* BabylonDocumentsManager (rag/documents/document_manager.py).            *)
(***************************************************************************)
\* MongoClientFactory._client = None, no call of get_client made; a client
\* is named by the order of its construction, 0 is None
NoFactory == [client |-> 0, config |-> "none", constructed |-> 0,
              last |-> [op |-> "none", config |-> "none", result |-> "none",
                        client |-> 0]]

\* no Datalake object has been constructed
NoLake == [state |-> "none", client |-> FALSE, db |-> FALSE, scope |-> "out",
           close_raised |-> FALSE,
           last |-> [op |-> "none", result |-> "none"]]

\* BabylonDocumentsManager._instance = None, _model = None
NoManager == [instance |-> FALSE, datalake_client |-> FALSE, model |-> "none",
              last |-> [result |-> "none", connected |-> FALSE]]

\* no DocumentsCollection has been built
NoIter == [cursor |-> <<>>, count |-> "none", position |-> 0, calls |-> 0,
           last |-> "none", returned |-> <<>>]

\* no wrapped method has been called: the instance has no attribute of the
\* name given to the decorator, no alarm is pending
NoTimer == [attribute |-> [t |-> "absent", v |-> 0], pc |-> "idle",
            guarded |-> FALSE, timeout_duration |-> 0, armed |-> 0,
            alarm |-> 0, work |-> 0, result |-> "none"]

(***************************************************************************)
(* Initial state: Daemon.__init__ has run, no buffer call was made.        *)
(***************************************************************************)
InitState ==
    /\ running = TRUE
    /\ min_loop_seconds \in MinLoopChoices
    /\ collection_prefix \in PrefixChoices
    /\ now = 0
    /\ start_time = 0
    /\ duration = 0
    /\ sleep_time = 0
    /\ exc = "none"
    /\ colls = <<>>
    /\ batch_number = 0
    /\ open_sessions = 0
    /\ txn = "none"
    /\ scope = "out"
    /\ scope_exc = "none"
    /\ scope_result = "none"
    /\ commit_calls = 0
    /\ abort_calls = 0
    /\ end_calls = 0
    /\ ticks = 0
    /\ prev_start = -1
    /\ prev_tick = [caught |-> FALSE, read_error |-> FALSE]
    /\ timing_log = "none"
    /\ slept = FALSE
    /\ read_error = FALSE
    /\ caught = FALSE
    /\ stop_requested = FALSE
    /\ documents = <<>>
    /\ buf_calls = 0
    /\ last_call = NoCall
    /\ proc = NoProc
    /\ discovered = <<>>
    /\ processed = <<>>
    /\ listing = <<>>
    /\ failed = <<>>
    /\ process_calls = 0
    /\ index = 0
    /\ factory = NoFactory
    /\ lake = NoLake
    /\ manager = NoManager

\* the daemon is about to enter the loop of run()
Init ==
    /\ InitState
    /\ built = NoBuilt
    /\ iter = NoIter
    /\ timer = NoTimer
    /\ pc = "loop"

(***************************************************************************)
(* Daemon.run                                                              *)
(***************************************************************************)
\* while self._running: ... start_time = time.time()
TickStart ==
    /\ pc = "loop"
    /\ running
    /\ ticks < MaxTicks
    /\ start_time' = now
    /\ prev_start' = IF ticks = 0 THEN -1 ELSE start_time
    /\ prev_tick' = [caught |-> caught, read_error |-> read_error]
    /\ ticks' = ticks + 1
    /\ pc' = "uow_init"
    /\ timing_log' = "none"
    /\ slept' = FALSE
    /\ read_error' = FALSE
    /\ caught' = FALSE
    /\ duration' = 0
    /\ sleep_time' = 0
    /\ UNCHANGED << running, min_loop_seconds, collection_prefix, now,
                    exc, colls, batch_number,
                    open_sessions, txn, scope, scope_exc, scope_result,
                    commit_calls, abort_calls, end_calls, stop_requested >>
    /\ UNCHANGED buffer_vars
    /\ UNCHANGED process_vars
    /\ UNCHANGED cycle_vars
    /\ UNCHANGED sink_vars
    /\ UNCHANGED component_vars

\* while self._running is false: "Daemon shutting down."
RunReturn ==
    /\ pc = "loop"
    /\ ~running
    /\ pc' = "returned"
    /\ UNCHANGED << running, min_loop_seconds, collection_prefix, now,
                    start_time, duration, sleep_time, exc, colls,
                    batch_number, open_sessions, txn, scope, scope_exc,
                    scope_result, commit_calls, abort_calls, end_calls,
                    ticks, prev_start, prev_tick, timing_log, slept, read_error, caught,
                    stop_requested >>
    /\ UNCHANGED buffer_vars
    /\ UNCHANGED process_vars
    /\ UNCHANGED cycle_vars
    /\ UNCHANGED sink_vars
    /\ UNCHANGED component_vars

\* UnitOfWork.__init__: self.session = client.start_session()
UowInit ==
    /\ pc = "uow_init"
    /\ \E fails \in BOOLEAN :
        /\ scope' = "out"
        /\ scope_exc' = "none"
        /\ scope_result' = "none"
        /\ commit_calls' = 0
        /\ abort_calls' = 0
        /\ end_calls' = 0
        /\ txn' = "none"
        /\ IF fails
           THEN /\ exc' = "Exception"
                /\ pc' = "handler"
                /\ UNCHANGED open_sessions
           ELSE /\ open_sessions' = open_sessions + 1
                /\ pc' = "enter"
                /\ UNCHANGED exc
    /\ UNCHANGED << running, min_loop_seconds, collection_prefix, now, start_time,
                    duration, sleep_time, colls, batch_number, ticks,
                    prev_start, prev_tick, timing_log, slept, read_error, caught,
                    stop_requested >>
    /\ UNCHANGED buffer_vars
    /\ UNCHANGED process_vars
    /\ UNCHANGED cycle_vars
    /\ UNCHANGED sink_vars
    /\ UNCHANGED component_vars

\* UnitOfWork.__enter__: self.session.start_transaction()
UowEnter ==
    /\ pc = "enter"
    /\ \E fails \in BOOLEAN :
        /\ IF fails
           THEN /\ exc' = "Exception"
                /\ pc' = "handler"
                /\ UNCHANGED << txn, scope >>
           ELSE /\ txn' = start_transaction(txn)
                /\ scope' = "in"
                /\ pc' = "discover"
                /\ UNCHANGED exc
    /\ UNCHANGED << running, min_loop_seconds, collection_prefix, now, start_time,
                    duration, sleep_time, colls, batch_number, open_sessions,
                    scope_exc, scope_result, commit_calls, abort_calls,
                    end_calls, ticks, prev_start, prev_tick, timing_log, slept,
                    read_error, caught, stop_requested >>
    /\ UNCHANGED buffer_vars
    /\ UNCHANGED process_vars
    /\ UNCHANGED cycle_vars
    /\ UNCHANGED sink_vars
    /\ UNCHANGED component_vars

\* Daemon.__process: colls = MongoClientFactory.list_collections(...)
Discover ==
    /\ pc = "discover"
    /\ \E dt \in 0..MaxStepDur, fails \in BOOLEAN, names \in LakeListings :
        /\ now' = now + dt
        /\ IF fails
           THEN /\ exc' = "Exception"
                /\ pc' = "exit"
                /\ UNCHANGED << colls, discovered, listing >>
           ELSE /\ listing' = names
                /\ discovered' = list_collections(names, collection_prefix)
                /\ colls' = ToProcess(discovered', failed)
                /\ pc' = "iterate"
                /\ UNCHANGED exc
    /\ UNCHANGED << running, min_loop_seconds, collection_prefix, start_time,
                    duration, sleep_time, batch_number, open_sessions, txn,
                    scope, scope_exc, scope_result, commit_calls, abort_calls,
                    end_calls, ticks, prev_start, prev_tick, timing_log, slept,
                    read_error, caught, stop_requested >>
    /\ UNCHANGED buffer_vars
    /\ UNCHANGED << proc, processed >>
    /\ UNCHANGED << failed, process_calls >>
    /\ UNCHANGED sink_vars
    /\ UNCHANGED component_vars

\* Daemon.__process: one iteration of `for collection_name in colls` calls
\* CollectionProcessor.process with a TransactionRepository on the head of
\* colls.  This is the start of process: the batch number is bumped, the
\* records are read (get_by_filter, which may raise) and a new, empty
\* RagCollection is built.
ProcessCollection ==
    /\ pc = "iterate"
    /\ colls # <<>>
    /\ batch_number' = update_batch_number(batch_number)
    /\ process_calls' = process_calls + 1
    /\ \E dt \in 0..MaxStepDur, fails \in BOOLEAN, raws \in LakeRecordLists :
        LET repo == [kind |-> "dto", raws |-> raws] IN
        /\ now' = now + dt
        /\ IF fails \/ GetByFilterRaises(repo)
           THEN /\ proc' = [NoProc EXCEPT !.result = "raised",
                                          !.error = IF fails THEN "read"
                                                    ELSE "to_domain",
                                          !.cursor = CursorAfterRead(repo, fails),
                                          !.caller = "daemon",
                                          !.raws = raws]
                /\ exc' = "Exception"
                /\ pc' = "exit"
                /\ read_error' = TRUE
                /\ UNCHANGED << documents, last_call >>
           ELSE /\ proc' = [NoProc EXCEPT !.result = "running",
                                          !.cursor = CursorAfterRead(repo, fails),
                                          !.caller = "daemon",
                                          !.raws = raws,
                                          !.sources = get_by_filter(repo)]
                /\ documents' = build_rag_collection(documents)
                /\ last_call' = NoCall
                /\ pc' = "process"
                /\ UNCHANGED << exc, read_error >>
    /\ UNCHANGED << running, min_loop_seconds, collection_prefix, start_time,
                    duration, sleep_time, colls, open_sessions, txn, scope,
                    scope_exc, scope_result, commit_calls, abort_calls,
                    end_calls, ticks, prev_start, prev_tick, timing_log,
                    slept, caught, stop_requested >>
    /\ UNCHANGED << buf_calls, discovered, processed >>
    /\ UNCHANGED << listing, failed >>
    /\ UNCHANGED sink_vars
    /\ UNCHANGED component_vars

\* CollectionProcessor.process: one iteration of `for transaction in
\* transactions`: build the document and add it to the RagCollection; what
\* either raises is caught, logged (unless the logging itself raises), and
\* the loop goes on.
ProcessRecord ==
    /\ pc = "process"
    /\ proc.result = "running"
    /\ ~LoopEnds(proc.i, Len(proc.sources))
    /\ LET source == proc.sources[proc.i + 1]
           arg == << build_langchain_document(source) >>
           failure == IF BuildRaises(source) THEN "mapping"
                      ELSE IF CheckMaxSizeFails(Len(documents), Len(arg))
                           THEN "capacity" ELSE "none"
       IN
        /\ IF failure = "mapping"
           THEN UNCHANGED << documents, last_call >>
           ELSE IF failure = "capacity"
           THEN /\ last_call' = [op |-> "add_documents", arg |-> arg,
                                 before |-> documents, raised |-> TRUE,
                                 wrote |-> <<>>]
                /\ UNCHANGED documents
           ELSE /\ documents' = documents \o arg
                /\ last_call' = [op |-> "add_documents", arg |-> arg,
                                 before |-> documents, raised |-> FALSE,
                                 wrote |-> <<>>]
        /\ IF failure = "none" \/ (LoopCatches(failure) /\ HasId(source))
           THEN /\ proc' = [proc EXCEPT
                              !.i = @ + 1,
                              !.skipped = IF failure = "mapping"
                                          THEN @ + 1 ELSE @,
                              !.rejected = IF failure = "capacity"
                                           THEN @ + 1 ELSE @]
                /\ UNCHANGED << pc, exc >>
           ELSE /\ proc' = [proc EXCEPT
                              !.result = "raised",
                              !.error = IF LoopCatches(failure)
                                        THEN "handler" ELSE failure,
                              !.rejected = IF failure = "capacity"
                                           THEN @ + 1 ELSE @]
                /\ pc' = IF proc.caller = "api" THEN "call" ELSE "exit"
                /\ exc' = IF proc.caller = "api" THEN exc ELSE "Exception"
    /\ UNCHANGED << running, min_loop_seconds, collection_prefix, now,
                    start_time, duration, sleep_time, colls, batch_number,
                    open_sessions, txn, scope, scope_exc, scope_result,
                    commit_calls, abort_calls, end_calls, ticks, prev_start,
                    prev_tick, timing_log, slept, read_error, caught,
                    stop_requested >>
    /\ UNCHANGED << buf_calls, discovered, processed >>
    /\ UNCHANGED cycle_vars
    /\ UNCHANGED sink_vars
    /\ UNCHANGED component_vars

\* CollectionProcessor.process: after the loop, rag_collection.vectorize(...)
\* and the return to the caller; what vectorize raises leaves process.  The
\* daemon keeps nothing of a call that returned: its RagCollection is a
\* local of process, and what the call did is kept in `processed`.
ProcessFlush ==
    /\ pc = "process"
    /\ proc.result = "running"
    /\ LoopEnds(proc.i, Len(proc.sources))
    /\ \E fails \in {"no", "setup", "write"} :
        /\ fails = "write" => documents # <<>>
        /\ index' = index + Len(VectorizeResult(documents, fails).wrote)
        /\ LET r == VectorizeResult(documents, fails)
               p == [proc EXCEPT
                        !.flush_calls = @ + 1,
                        !.flushed = documents,
                        !.writes = @ \o r.wrote,
                        !.result = IF r.raised THEN "raised" ELSE "returned",
                        !.error = IF r.raised THEN "flush" ELSE "none"]
           IN
            /\ IF proc.caller = "daemon" /\ ~r.raised
               THEN /\ proc' = NoProc
                    /\ documents' = <<>>
                    /\ last_call' = NoCall
               ELSE /\ proc' = p
                    /\ documents' = r.documents
                    /\ last_call' = [op |-> "vectorize", arg |-> <<>>,
                                     before |-> documents,
                                     raised |-> r.raised, wrote |-> r.wrote]
            /\ IF proc.caller = "api"
               THEN /\ pc' = "call"
                    /\ UNCHANGED << exc, colls, processed >>
               ELSE IF r.raised
               THEN /\ pc' = "exit"
                    /\ exc' = "Exception"
                    /\ UNCHANGED << colls, processed >>
               ELSE /\ pc' = "iterate"
                    /\ colls' = NextColls(colls)
                    /\ processed' = Append(processed,
                            [name |-> Head(colls),
                             records |-> Len(p.raws),
                             flush_calls |-> p.flush_calls,
                             flushed |-> p.flushed,
                             writes |-> p.writes])
                    /\ UNCHANGED exc
    /\ UNCHANGED << running, min_loop_seconds, collection_prefix, now,
                    start_time, duration, sleep_time, batch_number,
                    open_sessions, txn, scope, scope_exc, scope_result,
                    commit_calls, abort_calls, end_calls, ticks, prev_start,
                    prev_tick, timing_log, slept, read_error, caught,
                    stop_requested >>
    /\ UNCHANGED << buf_calls, discovered >>
    /\ UNCHANGED cycle_vars
    /\ UNCHANGED built
    /\ UNCHANGED component_vars

\* Daemon.__process: the for loop is exhausted, the with body ends
ForEnd ==
    /\ pc = "iterate"
    /\ colls = <<>>
    /\ pc' = "exit"
    /\ UNCHANGED << running, min_loop_seconds, collection_prefix, now,
                    start_time, duration, sleep_time, exc, colls,
                    batch_number, open_sessions, txn, scope, scope_exc,
                    scope_result, commit_calls, abort_calls, end_calls,
                    ticks, prev_start, prev_tick, timing_log, slept, read_error, caught,
                    stop_requested >>
    /\ UNCHANGED buffer_vars
    /\ UNCHANGED process_vars
    /\ UNCHANGED cycle_vars
    /\ UNCHANGED sink_vars
    /\ UNCHANGED component_vars

\* UnitOfWork.__exit__(exc_type, ...): abort or commit, then end_session.
\* commit_transaction reports a failed commit by raising, and end_session
\* is then not reached (abort_transaction ignores the errors of the server).
\* An exception of the with body goes on unless __exit__ suppresses it.
\* Nothing is left of a process call that an exception unwound, and the
\* names and the account of the calls are locals of the with body; `failed`
\* keeps the name of the collection whose process call ended the cycle.
UowExit ==
    /\ pc = "exit"
    /\ scope' = "exited"
    /\ scope_exc' = exc
    /\ \E fails \in BOOLEAN :
        /\ IF ExitAborts(exc)
           THEN /\ abort_calls' = abort_calls + 1
                /\ txn' = "aborted"
                /\ end_calls' = end_calls + 1
                /\ open_sessions' = open_sessions - 1
                /\ exc' = IF ExitSuppresses(exc) /\ exc # "none"
                          THEN "none" ELSE exc
                /\ UNCHANGED commit_calls
           ELSE /\ commit_calls' = commit_calls + 1
                /\ UNCHANGED abort_calls
                /\ IF fails
                   THEN /\ exc' = "Exception"
                        /\ UNCHANGED << txn, end_calls, open_sessions >>
                   ELSE /\ txn' = "committed"
                        /\ end_calls' = end_calls + 1
                        /\ open_sessions' = open_sessions - 1
                        /\ exc' = IF ExitSuppresses(exc) /\ exc # "none"
                                  THEN "none" ELSE exc
    /\ scope_result' = IF exc' = "none" THEN "returned" ELSE "raised"
    /\ pc' = IF exc' = "none" THEN "timing" ELSE "handler"
    /\ UNCHANGED << running, min_loop_seconds, collection_prefix, now, start_time,
                    duration, sleep_time, batch_number, ticks,
                    prev_start, prev_tick, timing_log, slept, read_error,
                    caught, stop_requested >>
    /\ proc' = NoProc
    /\ documents' = <<>>
    /\ last_call' = NoCall
    /\ discovered' = <<>>
    /\ processed' = <<>>
    /\ UNCHANGED buf_calls
    /\ colls' = <<>>
    /\ listing' = <<>>
    /\ failed' = IF proc.caller = "daemon" /\ proc.result = "raised"
                    /\ exc = "Exception"
                 THEN Head(colls) ELSE <<>>
    /\ UNCHANGED process_calls
    /\ UNCHANGED sink_vars
    /\ UNCHANGED component_vars

\* run(): try: self.__process() except Exception as e: log, go on.
\* What the clause does not catch leaves run().
Handler ==
    /\ pc = "handler"
    /\ IF Catches(exc)
       THEN /\ exc' = "none"
            /\ caught' = TRUE
            /\ pc' = "timing"
       ELSE /\ pc' = IF exc = "KeyboardInterrupt" THEN "main_except"
                     ELSE "crashed"
            /\ UNCHANGED << exc, caught >>
    /\ UNCHANGED << running, min_loop_seconds, collection_prefix, now,
                    start_time, duration, sleep_time, colls, batch_number,
                    open_sessions, txn, scope, scope_exc, scope_result,
                    commit_calls, abort_calls, end_calls, ticks, prev_start, prev_tick,
                    timing_log, slept, read_error, stop_requested >>
    /\ UNCHANGED buffer_vars
    /\ UNCHANGED process_vars
    /\ UNCHANGED cycle_vars
    /\ UNCHANGED sink_vars
    /\ UNCHANGED component_vars

\* run(): end_time, duration, sleep_time and the branch on sleep_time
Timing ==
    /\ pc = "timing"
    /\ duration' = now - start_time
    /\ sleep_time' = SleepTime(min_loop_seconds, duration')
    /\ IF ShouldSleep(sleep_time')
       THEN /\ timing_log' = "sleeping"
            /\ pc' = "sleep"
       ELSE /\ timing_log' = "overrun"
            /\ pc' = "loop"
    /\ UNCHANGED << running, min_loop_seconds, collection_prefix, now,
                    start_time, exc, colls, batch_number, open_sessions, txn,
                    scope, scope_exc, scope_result, commit_calls, abort_calls,
                    end_calls, ticks, prev_start, prev_tick, slept, read_error, caught,
                    stop_requested >>
    /\ UNCHANGED buffer_vars
    /\ UNCHANGED process_vars
    /\ UNCHANGED cycle_vars
    /\ UNCHANGED sink_vars
    /\ UNCHANGED component_vars

\* run(): time.sleep(sleep_time); the call blocks at least sleep_time
Sleep ==
    /\ pc = "sleep"
    /\ \E over \in 0..MaxOversleep : now' = now + sleep_time + over
    /\ slept' = TRUE
    /\ pc' = "loop"
    /\ UNCHANGED << running, min_loop_seconds, collection_prefix, start_time,
                    duration, sleep_time, exc, colls, batch_number,
                    open_sessions, txn, scope, scope_exc, scope_result,
                    commit_calls, abort_calls, end_calls, ticks, prev_start, prev_tick,
                    timing_log, read_error, caught, stop_requested >>
    /\ UNCHANGED buffer_vars
    /\ UNCHANGED process_vars
    /\ UNCHANGED cycle_vars
    /\ UNCHANGED sink_vars
    /\ UNCHANGED component_vars

(***************************************************************************)
(* Stop signals.                                                           *)
(***************************************************************************)
\* Daemon.stop() called while run() is executing
Stop ==
    /\ pc \notin {"returned", "main_except", "done", "crashed"}
    /\ ~stop_requested
    /\ running' = FALSE
    /\ stop_requested' = TRUE
    /\ UNCHANGED << min_loop_seconds, collection_prefix, pc, now, start_time,
                    duration, sleep_time, exc, colls, batch_number,
                    open_sessions, txn, scope, scope_exc, scope_result,
                    commit_calls, abort_calls, end_calls, ticks, prev_start, prev_tick,
                    timing_log, slept, read_error, caught >>
    /\ UNCHANGED buffer_vars
    /\ UNCHANGED process_vars
    /\ UNCHANGED cycle_vars
    /\ UNCHANGED sink_vars
    /\ UNCHANGED component_vars

\* Ctrl+C: KeyboardInterrupt is raised in the main thread wherever run() is.
\* Inside the with body it unwinds through UnitOfWork.__exit__; elsewhere
\* it leaves run() at once.  Inside process it leaves process as well.
Interrupt ==
    /\ pc \in {"loop", "uow_init", "enter", "discover", "iterate", "process",
               "handler", "timing", "sleep"}
    /\ ~stop_requested
    /\ stop_requested' = TRUE
    /\ exc' = "KeyboardInterrupt"
    /\ pc' = IF pc \in {"discover", "iterate", "process"} THEN "exit"
             ELSE "main_except"
    /\ proc' = IF pc = "process"
               THEN [proc EXCEPT !.result = "raised",
                                 !.error = "KeyboardInterrupt"]
               ELSE proc
    /\ UNCHANGED << running, min_loop_seconds, collection_prefix, now,
                    start_time, duration, sleep_time, colls, batch_number,
                    open_sessions, txn, scope, scope_exc, scope_result,
                    commit_calls, abort_calls, end_calls, ticks, prev_start, prev_tick,
                    timing_log, slept, read_error, caught >>
    /\ UNCHANGED buffer_vars
    /\ UNCHANGED << discovered, processed >>
    /\ UNCHANGED cycle_vars
    /\ UNCHANGED sink_vars
    /\ UNCHANGED component_vars

\* __main__: except KeyboardInterrupt: my_daemon.stop()
MainExcept ==
    /\ pc = "main_except"
    /\ running' = FALSE
    /\ pc' = "done"
    /\ UNCHANGED << min_loop_seconds, collection_prefix, now, start_time,
                    duration, sleep_time, exc, colls, batch_number,
                    open_sessions, txn, scope, scope_exc, scope_result,
                    commit_calls, abort_calls, end_calls, ticks, prev_start, prev_tick,
                    timing_log, slept, read_error, caught, stop_requested >>
    /\ UNCHANGED buffer_vars
    /\ UNCHANGED process_vars
    /\ UNCHANGED cycle_vars
    /\ UNCHANGED sink_vars
    /\ UNCHANGED component_vars

\* the steps the main thread takes on its own
DaemonStep ==
    \/ TickStart
    \/ RunReturn
    \/ UowInit
    \/ UowEnter
    \/ Discover
    \/ ProcessCollection
    \/ ProcessRecord
    \/ ProcessFlush
    \/ ForEnd
    \/ UowExit
    \/ Handler
    \/ Timing
    \/ Sleep
    \/ MainExcept

Next ==
    \/ DaemonStep
    \/ Stop
    \/ Interrupt

Spec == Init /\ [][Next]_vars

\* the main thread keeps executing: every call of the cycle returns or raises
FairSpec == Spec /\ WF_vars(DaemonStep)

(***************************************************************************)
(* RagCollection: the calls a holder of the buffer can make.  The buffer   *)
(* is created empty (set_rag_process refuses a non-empty list).            *)
(***************************************************************************)
\* RagCollection.add_documents(documents)
add_documents ==
    /\ buf_calls < MaxCalls
    /\ \E d \in Docs, k \in AddSizes :
        LET arg == Rep(d, k) IN
        IF CheckMaxSizeFails(Len(documents), Len(arg))
        THEN /\ last_call' = [op |-> "add_documents", arg |-> arg,
                              before |-> documents, raised |-> TRUE,
                              wrote |-> <<>>]
             /\ UNCHANGED documents
        ELSE /\ documents' = documents \o arg
             /\ last_call' = [op |-> "add_documents", arg |-> arg,
                              before |-> documents, raised |-> FALSE,
                              wrote |-> <<>>]
    /\ buf_calls' = buf_calls + 1
    /\ UNCHANGED daemon_vars
    /\ UNCHANGED process_vars
    /\ UNCHANGED cycle_vars
    /\ UNCHANGED sink_vars
    /\ UNCHANGED component_vars

\* RagCollection.__add__(other)
add_one ==
    /\ buf_calls < MaxCalls
    /\ \E d \in Docs :
        IF CheckMaxSizeFails(Len(documents), 1)
        THEN /\ last_call' = [op |-> "__add__", arg |-> <<d>>,
                              before |-> documents, raised |-> TRUE,
                              wrote |-> <<>>]
             /\ UNCHANGED documents
        ELSE /\ documents' = Append(documents, d)
             /\ last_call' = [op |-> "__add__", arg |-> <<d>>,
                              before |-> documents, raised |-> FALSE,
                              wrote |-> <<>>]
    /\ buf_calls' = buf_calls + 1
    /\ UNCHANGED daemon_vars
    /\ UNCHANGED process_vars
    /\ UNCHANGED cycle_vars
    /\ UNCHANGED sink_vars
    /\ UNCHANGED component_vars

\* RagCollection.clear_documents()
clear_documents ==
    /\ buf_calls < MaxCalls
    /\ documents' = <<>>
    /\ last_call' = [op |-> "clear_documents", arg |-> <<>>,
                     before |-> documents, raised |-> FALSE, wrote |-> <<>>]
    /\ buf_calls' = buf_calls + 1
    /\ UNCHANGED daemon_vars
    /\ UNCHANGED process_vars
    /\ UNCHANGED cycle_vars
    /\ UNCHANGED sink_vars
    /\ UNCHANGED component_vars

\* RagCollection.vectorize(model): builds the embeddings and the store
\* (either may raise), returns early on an empty buffer, else hands the
\* whole list to vector_store.add_documents (which may raise).  The list
\* itself is not touched.
vectorize ==
    /\ buf_calls < MaxCalls
    /\ \E fails \in {"no", "setup", "write"} :
        /\ fails = "write" => documents # <<>>
        /\ index' = index + Len(VectorizeResult(documents, fails).wrote)
        /\ LET r == VectorizeResult(documents, fails) IN
            /\ last_call' = [op |-> "vectorize", arg |-> <<>>,
                             before |-> documents, raised |-> r.raised,
                             wrote |-> r.wrote]
            /\ documents' = r.documents
    /\ buf_calls' = buf_calls + 1
    /\ UNCHANGED daemon_vars
    /\ UNCHANGED process_vars
    /\ UNCHANGED cycle_vars
    /\ UNCHANGED built
    /\ UNCHANGED component_vars

NextBuffer ==
    \/ add_documents
    \/ add_one
    \/ clear_documents
    \/ vectorize

InitBuffer ==
    /\ Init
    /\ min_loop_seconds = 1
    /\ collection_prefix = <<>>

SpecBuffer == InitBuffer /\ [][NextBuffer]_vars

(***************************************************************************)
(* CollectionProcessor.process called on its own, with any repository.     *)
(***************************************************************************)
\* a caller holds a CollectionProcessor and is about to call process
InitProcess ==
    /\ InitState
    /\ built = NoBuilt
    /\ iter = NoIter
    /\ timer = NoTimer
    /\ min_loop_seconds = 1
    /\ collection_prefix = <<>>
    /\ pc = "call"

\* process(transaction_repository): the start of the call, as in
\* ProcessCollection, for a repository with either mapper
ApiProcess ==
    /\ pc = "call"
    /\ batch_number < MaxProcessCalls
    /\ batch_number' = update_batch_number(batch_number)
    /\ process_calls' = process_calls + 1
    /\ \E fails \in BOOLEAN, kind \in MapperKinds, raws \in ApiRecordLists :
        LET repo == [kind |-> kind, raws |-> raws] IN
        IF fails \/ GetByFilterRaises(repo)
        THEN /\ proc' = [NoProc EXCEPT !.result = "raised",
                                       !.error = IF fails THEN "read"
                                                 ELSE "to_domain",
                                       !.cursor = CursorAfterRead(repo, fails),
                                       !.caller = "api",
                                       !.raws = raws]
             /\ UNCHANGED << pc, documents, last_call >>
        ELSE /\ proc' = [NoProc EXCEPT !.result = "running",
                                       !.cursor = CursorAfterRead(repo, fails),
                                       !.caller = "api",
                                       !.raws = raws,
                                       !.sources = get_by_filter(repo),
                                       !.after_unflushed =
                                          /\ proc.result = "raised"
                                          /\ proc.flush_calls = 0
                                          /\ documents # <<>>]
             /\ documents' = build_rag_collection(documents)
             /\ last_call' = NoCall
             /\ pc' = "process"
    /\ UNCHANGED << running, min_loop_seconds, collection_prefix, now,
                    start_time, duration, sleep_time, exc, colls,
                    open_sessions, txn, scope, scope_exc, scope_result,
                    commit_calls, abort_calls, end_calls, ticks, prev_start,
                    prev_tick, timing_log, slept, read_error, caught,
                    stop_requested >>
    /\ UNCHANGED << buf_calls, discovered, processed >>
    /\ UNCHANGED << listing, failed >>
    /\ UNCHANGED sink_vars
    /\ UNCHANGED component_vars

NextProcess ==
    \/ ApiProcess
    \/ ProcessRecord
    \/ ProcessFlush

SpecProcess == InitProcess /\ [][NextProcess]_vars

(***************************************************************************)
(* The document builder called on its own, on any record.                  *)
(***************************************************************************)
\* a caller holds a record of a collection and is about to call the builder
InitBuilder ==
    /\ InitState
    /\ iter = NoIter
    /\ timer = NoTimer
    /\ min_loop_seconds = 1
    /\ collection_prefix = <<>>
    /\ pc = "build"
    /\ \E source \in BuilderSources, collection \in CollectionNames :
          built = [op |-> "input", source |-> source,
                   collection |-> collection, result |-> None]

BuilderUnchanged ==
    /\ UNCHANGED << running, min_loop_seconds, collection_prefix, now,
                    start_time, duration, sleep_time, exc, colls,
                    batch_number, open_sessions, txn, scope, scope_exc,
                    scope_result, commit_calls, abort_calls, end_calls, ticks,
                    prev_start, prev_tick, timing_log, slept, read_error,
                    caught, stop_requested >>
    /\ UNCHANGED buffer_vars
    /\ UNCHANGED process_vars
    /\ UNCHANGED cycle_vars
    /\ UNCHANGED index
    /\ UNCHANGED component_vars

\* build_langchain_document(source, collection)
BuildDocument ==
    /\ pc = "build"
    /\ pc' = "built"
    /\ \E uuid \in Uuids :
          built' = [built EXCEPT
                      !.op = "build_langchain_document",
                      !.result = BuildLangchainDocument(
                                    built.source, built.collection, uuid)]
    /\ BuilderUnchanged

\* build_document_content(source, collection)
BuildContent ==
    /\ pc = "build"
    /\ pc' = "built"
    /\ built' = [built EXCEPT
                   !.op = "build_document_content",
                   !.result =
                      IF ContentRaises(built.source)
                      THEN [raised |-> TRUE, content |-> None]
                      ELSE [raised |-> FALSE,
                            content |-> build_document_content(built.source)]]
    /\ BuilderUnchanged

\* build_document_metadata(source, collection, source_id)
BuildMetadata ==
    /\ pc = "build"
    /\ pc' = "built"
    /\ \E source_id \in {None, Str("id1")} :
          built' = [built EXCEPT
                      !.op = "build_document_metadata",
                      !.result =
                         IF MetadataRaises(built.source)
                         THEN [raised |-> TRUE, source_id |-> source_id,
                               metadata |-> None]
                         ELSE [raised |-> FALSE, source_id |-> source_id,
                               metadata |-> build_document_metadata(
                                  built.source, built.collection, source_id)]]
    /\ BuilderUnchanged

NextBuilder ==
    \/ BuildDocument
    \/ BuildContent
    \/ BuildMetadata

SpecBuilder == InitBuilder /\ [][NextBuilder]_vars

(***************************************************************************)
(* Data lake access called on its own: MongoClientFactory, Datalake and    *)
(* the construction of BabylonDocumentsManager.                            *)
(***************************************************************************)
\* upper bound on the clients the factory is let to construct
MaxClients == 2

\* what a caller passes as config=: nothing, an empty mapping, a mapping with
\* every key (two of them), a mapping that lacks a key
ConfigOptions == {"none", "empty", "a", "b", "incomplete"}

InitLake ==
    /\ InitState
    /\ built = NoBuilt
    /\ iter = NoIter
    /\ timer = NoTimer
    /\ min_loop_seconds = 1
    /\ collection_prefix = <<>>
    /\ pc = "lake"

ComponentUnchanged ==
    /\ UNCHANGED daemon_vars
    /\ UNCHANGED buffer_vars
    /\ UNCHANGED process_vars
    /\ UNCHANGED cycle_vars
    /\ UNCHANGED sink_vars

\* get_client: `if cls._client is None`
NeedsClient_Always(client) == TRUE
NeedsClient(client) == client = 0

\* get_client: `if not dl_config`
ConfigMissing(config) == config \in {"none", "empty"}

\* _configure_mongo_client: config[...] raises KeyError for a missing key
ConfigureRaises(config) == config = "incomplete"

\* the outcome of get_client(config=config) on a factory f, `fails` being
\* whether MongoClient(...) raises
get_client(f, config, fails) ==
    IF ~NeedsClient(f.client)
    THEN [f EXCEPT !.last = [op |-> "get_client", config |-> config,
                             result |-> "returned",
                             client |-> f.client]]
    ELSE IF ConfigMissing(config)
    THEN [f EXCEPT !.last = [op |-> "get_client", config |-> config,
                             result |-> "ValueError",
                             client |-> 0]]
    ELSE IF ConfigureRaises(config) \/ fails
    THEN [f EXCEPT !.last = [op |-> "get_client", config |-> config,
                             result |-> "error",
                             client |-> 0]]
    ELSE [client |-> f.constructed + 1,
          config |-> config,
          constructed |-> f.constructed + 1,
          last |-> [op |-> "get_client", config |-> config,
                    result |-> "returned", client |-> f.constructed + 1]]

\* MongoClientFactory.get_client(**kwargs)
GetClient ==
    /\ pc = "lake"
    /\ factory.constructed < MaxClients
    /\ \E config \in ConfigOptions, fails \in BOOLEAN :
          factory' = get_client(factory, config, fails)
    /\ UNCHANGED << lake, manager, iter, timer >>
    /\ ComponentUnchanged

\* MongoClientFactory.get_collection(db_name, coll_name): client =
\* cls.get_client(), without a config
GetCollection ==
    /\ pc = "lake"
    /\ factory.constructed < MaxClients
    /\ factory' = [get_client(factory, "none", FALSE) EXCEPT
                       !.last.op = "get_collection"]
    /\ UNCHANGED << lake, manager, iter, timer >>
    /\ ComponentUnchanged

\* Datalake.__init__: MongoClient(...), ping, self._db = client[name]; what
\* raises is raised as DatalakeError and no object is returned
DatalakeInit ==
    /\ pc = "lake"
    /\ lake.state \in {"none", "closed"}
    /\ lake.scope = "out"
    /\ \E fails \in BOOLEAN :
          lake' = IF fails
                  THEN [lake EXCEPT !.last = [op |-> "init",
                                              result |-> "DatalakeError"]]
                  ELSE [state |-> "open", client |-> TRUE, db |-> TRUE,
                        scope |-> "out", close_raised |-> FALSE,
                        last |-> [op |-> "init", result |-> "returned"]]
    /\ UNCHANGED << factory, manager, iter, timer >>
    /\ ComponentUnchanged

\* Datalake.close: `raises` is whether self._client.close() raises
close_NoFinally(l, raises) ==
    IF l.client /\ ~raises THEN [l EXCEPT !.client = FALSE, !.db = FALSE]
    ELSE l
close(l, raises) ==
    IF l.client THEN [l EXCEPT !.client = FALSE, !.db = FALSE] ELSE l

\* Datalake.close()
DatalakeClose ==
    /\ pc = "lake"
    /\ lake.state # "none"
    /\ \E raises \in BOOLEAN :
          lake' = [close(lake, raises) EXCEPT
                     !.state = "closed",
                     !.close_raised = @ \/ (lake.client /\ raises),
                     !.last = [op |-> "close",
                               result |-> IF lake.client /\ raises
                                          THEN "error" ELSE "returned"]]
    /\ UNCHANGED << factory, manager, iter, timer >>
    /\ ComponentUnchanged

\* Datalake.__enter__
DatalakeEnter ==
    /\ pc = "lake"
    /\ lake.state # "none"
    /\ lake.scope = "out"
    /\ lake' = [lake EXCEPT !.scope = "in",
                            !.last = [op |-> "enter", result |-> "returned"]]
    /\ UNCHANGED << factory, manager, iter, timer >>
    /\ ComponentUnchanged

\* Datalake.__exit__: self.close(), after a body that returned or raised;
\* __exit__ returns None, so what the body raised goes on
DatalakeExit ==
    /\ pc = "lake"
    /\ lake.scope = "in"
    /\ \E body_raises \in BOOLEAN, raises \in BOOLEAN :
          lake' = [close(lake, raises) EXCEPT
                     !.state = "closed",
                     !.close_raised = @ \/ (lake.client /\ raises),
                     !.scope = "out",
                     !.last = [op |-> "exit",
                               result |-> IF lake.client /\ raises
                                          THEN "error"
                                          ELSE IF body_raises THEN "body error"
                                          ELSE "returned"]]
    /\ UNCHANGED << factory, manager, iter, timer >>
    /\ ComponentUnchanged

\* Datalake.find / Datalake.list_collections: `if self._db is None: raise
\* DatalakeError`; what the driver raises is raised as DatalakeError too
Query(l, fails) == IF ~l.db \/ fails THEN "DatalakeError" ELSE "returned"

\* Datalake.find(criteria, collection)
DatalakeFind ==
    /\ pc = "lake"
    /\ lake.state # "none"
    /\ \E fails \in BOOLEAN :
          lake' = [lake EXCEPT !.last = [op |-> "find",
                                         result |-> Query(lake, fails)]]
    /\ UNCHANGED << factory, manager, iter, timer >>
    /\ ComponentUnchanged

\* Datalake.list_collections(start_prefix, end_prefix)
DatalakeListCollections ==
    /\ pc = "lake"
    /\ lake.state # "none"
    /\ \E fails \in BOOLEAN :
          lake' = [lake EXCEPT !.last = [op |-> "list_collections",
                                         result |-> Query(lake, fails)]]
    /\ UNCHANGED << factory, manager, iter, timer >>
    /\ ComponentUnchanged

\* BabylonDocumentsManager.__new__(cls, config): `connects` is whether
\* Datalake(...) succeeds, `has_model` whether config has "EMBEDDING_MODEL".
\* The new object is stored in cls._instance before the data lake is
\* configured, and stays there when that raises.
BabylonDocumentsManager_new ==
    /\ pc = "lake"
    /\ \E connects \in BOOLEAN, has_model \in BOOLEAN :
          manager' =
            IF ~manager.instance /\ ~connects
            THEN [manager EXCEPT !.instance = TRUE,
                                 !.last = [result |-> "RAGError",
                                           connected |-> TRUE]]
            ELSE [instance |-> TRUE,
                  datalake_client |-> IF manager.instance
                                      THEN manager.datalake_client ELSE TRUE,
                  model |-> IF has_model THEN "set" ELSE manager.model,
                  last |-> [result |-> IF has_model THEN "returned"
                                       ELSE "KeyError",
                            connected |-> ~manager.instance]]
    /\ UNCHANGED << factory, lake, iter, timer >>
    /\ ComponentUnchanged

NextLake ==
    \/ GetClient
    \/ GetCollection
    \/ DatalakeInit
    \/ DatalakeClose
    \/ DatalakeEnter
    \/ DatalakeExit
    \/ DatalakeFind
    \/ DatalakeListCollections
    \/ BabylonDocumentsManager_new

SpecLake == InitLake /\ [][NextLake]_vars

(***************************************************************************)
(* timeout_decorator (features_pipeline/timeout.py): calls of one wrapped  *)
(* method of one instance.  A value of the attribute is [t |-> its type,   *)
(* v |-> what int() makes of it]; alarm is the number of seconds until the *)
(* pending SIGALRM, 0 when none is pending.                                *)
(***************************************************************************)
\* upper bound on the seconds one call of the wrapped method is followed
MaxWork == 3

\* timeout_decorator(attribute_name='_timeout_seconds', default_seconds=10)
default_seconds == 10

\* signal.alarm(-1): the C library takes the seconds as an unsigned int, so
\* the alarm is due after 2^32 - 1 seconds; the largest integer of the model
\* checker stands for it, far beyond any wait followed here
UINT_MAX == 2147483647

\* values the instance attribute may hold: none (no attribute), 2, 0, -1,
\* 2.5, 0.5, True, "3", "abc", None
AttributeOptions ==
    { [t |-> "absent", v |-> 0], [t |-> "int", v |-> 2], [t |-> "int", v |-> 0],
      [t |-> "int", v |-> -1], [t |-> "float", v |-> 2],
      [t |-> "float", v |-> 0], [t |-> "bool", v |-> 1],
      [t |-> "str", v |-> 3], [t |-> "str", v |-> -2],
      [t |-> "NoneType", v |-> 0] }

\* "abc": a string int() does not parse
Unparsable(a) == a.t = "str" /\ a.v < 0

\* isinstance(timeout_duration, (int, float)) and timeout_duration > 0; the
\* floats explored are positive
ValidTimeout(a) ==
    /\ a.t \in {"int", "float", "bool"}
    /\ (a.t = "float" \/ a.v > 0)

\* wrapper: the value of timeout_duration after the try statement.  getattr
\* assigns it before the test, and neither except clause assigns it again.
timeout_duration(a) ==
    IF a.t = "absent" THEN [t |-> "int", v |-> default_seconds] ELSE a

\* int(timeout_duration) raises TypeError for None, ValueError for "abc"
IntRaises(d) == d.t = "NoneType" \/ Unparsable(d)
IntError(d) == IF d.t = "NoneType" THEN "TypeError" ELSE "ValueError"

\* wrapper: `finally: signal.alarm(0)`, whether func returned or raised
AlarmAfter_OnReturnOnly(raised, alarm) == IF raised THEN alarm ELSE 0
AlarmAfter(raised, alarm) == 0

InitTimeout ==
    /\ InitState
    /\ built = NoBuilt
    /\ iter = NoIter
    /\ timer = NoTimer
    /\ min_loop_seconds = 1
    /\ collection_prefix = <<>>
    /\ pc = "timeout"

\* instance._timeout_seconds = value, or del instance._timeout_seconds,
\* between two calls
SetAttribute ==
    /\ pc = "timeout"
    /\ timer.pc = "idle"
    /\ \E a \in AttributeOptions : timer' = [timer EXCEPT !.attribute = a]
    /\ UNCHANGED << factory, lake, manager, iter >>
    /\ ComponentUnchanged

\* wrapper(*args, **kwargs) up to the call of func: without self, func is
\* called at once; else the timeout is read and the alarm is armed
WrapperCall ==
    /\ pc = "timeout"
    /\ timer.pc = "idle"
    /\ \E has_self \in BOOLEAN, wraps \in BOOLEAN :
        LET d == timeout_duration(timer.attribute) IN
        timer' =
          IF ~has_self
          THEN [timer EXCEPT !.pc = "running", !.guarded = FALSE,
                             !.timeout_duration = 0, !.armed = 0,
                             !.work = 0, !.result = "none"]
          ELSE IF IntRaises(d)
          THEN [timer EXCEPT !.guarded = TRUE, !.timeout_duration = 0,
                             !.armed = 0, !.work = 0,
                             !.result = IntError(d)]
          ELSE IF d.v < 0 /\ ~wraps
          THEN [timer EXCEPT !.guarded = TRUE, !.timeout_duration = d.v,
                             !.armed = 0, !.work = 0,
                             !.result = "OverflowError"]
          ELSE [timer EXCEPT !.pc = "running", !.guarded = TRUE,
                             !.timeout_duration = d.v,
                             !.armed = IF d.v < 0 THEN UINT_MAX ELSE d.v,
                             !.alarm = IF d.v < 0 THEN UINT_MAX ELSE d.v,
                             !.work = 0, !.result = "none"]
    /\ UNCHANGED << factory, lake, manager, iter >>
    /\ ComponentUnchanged

\* one second passes inside func; an alarm that comes due runs
\* signal_handler, which raises TimeoutException in func, and the finally
\* clause of wrapper runs
Work ==
    /\ pc = "timeout"
    /\ timer.pc = "running"
    /\ timer.work < MaxWork
    /\ timer' =
          IF timer.alarm = 1
          THEN [timer EXCEPT !.pc = "idle", !.work = @ + 1,
                             !.alarm = AlarmAfter(TRUE, 0),
                             !.result = "TimeoutException"]
          ELSE [timer EXCEPT !.work = @ + 1,
                             !.alarm = IF @ = 0 THEN 0 ELSE @ - 1]
    /\ UNCHANGED << factory, lake, manager, iter >>
    /\ ComponentUnchanged

\* func returns or raises; wrapper ends, through its finally clause if the
\* alarm was armed
FuncEnd ==
    /\ pc = "timeout"
    /\ timer.pc = "running"
    /\ \E raises \in BOOLEAN :
          timer' = [timer EXCEPT
                      !.pc = "idle",
                      !.alarm = IF timer.guarded
                                THEN AlarmAfter(raises, timer.alarm) ELSE @,
                      !.result = IF raises THEN "raised" ELSE "returned"]
    /\ UNCHANGED << factory, lake, manager, iter >>
    /\ ComponentUnchanged

NextTimeout ==
    \/ SetAttribute
    \/ WrapperCall
    \/ Work
    \/ FuncEnd

SpecTimeout == InitTimeout /\ [][NextTimeout]_vars

(***************************************************************************)
(* DocumentsCollection and DocumentsIter                                   *)
(* (rag/documents/documents_collection.py): one iterator over the          *)
(* collection built on a cursor of finitely many records.                  *)
(***************************************************************************)
\* upper bound on the __next__ calls made on the iterator
MaxNext == 4

\* records a cursor may hold
IterRecords ==
    { MkDict(Str("id1"), Str("01/31/2023"), Num("-75.77"), Str("DEBIT_CARD"),
             Str("WHOLEFDS"), Absent),
      MkDict(ObjectId("68eb41ec"), Absent, Num("3"), Absent, Absent, Absent),
      MkDict(Absent, Absent, Absent, Absent, Absent, Absent) }

\* what the cursors explored return, in order
CursorOptions == UNION { [1..n -> IterRecords] : n \in 0..2 }

\* what db_cursor.count() does: a driver before 4.0 returns the number of
\* records the query matches, wherever the cursor stands; a later driver
\* has no such method
CountOptions == {"matches", "AttributeError"}

\* a DocumentsCollection was built on a cursor and iter() was called on it
InitIter ==
    /\ InitState
    /\ built = NoBuilt
    /\ timer = NoTimer
    /\ min_loop_seconds = 1
    /\ collection_prefix = <<>>
    /\ pc = "iter"
    /\ \E cursor \in CursorOptions, count \in CountOptions :
          iter = [NoIter EXCEPT !.cursor = cursor, !.count = count]

\* DocumentsCollection.is_empty: self._db_cursor.count() == 0
is_empty(it) == Len(it.cursor) = 0

\* DocumentsCollection.__getitem__(key): return self._db_cursor, the
\* cursor itself whatever the key
getitem(it, key) == [kind |-> "cursor", fields |-> <<>>]

\* DocumentsIter.__next__
DocumentsIter_next ==
    /\ pc = "iter"
    /\ iter.calls < MaxNext
    /\ iter' =
          IF iter.count = "AttributeError"
          THEN [iter EXCEPT !.calls = @ + 1, !.last = "AttributeError"]
          ELSE IF is_empty(iter)
          THEN [iter EXCEPT !.calls = @ + 1, !.last = "StopIteration"]
          ELSE LET source_data == getitem(iter, iter.position)
               IN IF IsMapping(source_data)
                  THEN [iter EXCEPT !.calls = @ + 1,
                                    !.position = @ + 1,
                                    !.last = "returned",
                                    !.returned = Append(@, source_data)]
                  ELSE [iter EXCEPT !.calls = @ + 1,
                                    !.position = @ + 1,
                                    !.last = "AttributeError"]
    /\ UNCHANGED << factory, lake, manager, timer >>
    /\ ComponentUnchanged

NextIter == DocumentsIter_next

SpecIter == InitIter /\ [][NextIter]_vars

(***************************************************************************)
(* Properties of the scheduler (Spec, FairSpec).                           *)
(***************************************************************************)
RunLeft == pc \in {"returned", "main_except", "done", "crashed"}

\* C1: an exception raised by the scan-and-process cycle is caught by run()
\* and never leaves it (run() is never left by an Exception), and unless a
\* stop was requested the next tick starts.
C1_FailedCycleKeepsScheduling ==
    /\ [](pc # "crashed")
    /\ \A k \in 1..(MaxTicks - 1) :
         (pc = "handler" /\ exc = "Exception" /\ ticks = k)
            ~> ((ticks = k + 1 /\ prev_tick.caught) \/ stop_requested)

C1_Witness ==
    /\ ticks >= 2
    /\ prev_tick.caught
    /\ pc = "uow_init"
    /\ ~stop_requested

\* C2: a tick starts at least min_loop_seconds after the tick before it
\* started, whether the earlier cycle succeeded or raised.
C2_MinimumTickSpacing ==
    prev_start # -1 => start_time - prev_start >= min_loop_seconds

C2_Witness ==
    /\ prev_start # -1
    /\ prev_tick.caught
    /\ start_time - prev_start = min_loop_seconds
    /\ min_loop_seconds = 3

\* C3: with d the elapsed duration of the cycle, d < min_loop_seconds makes
\* the daemon sleep exactly min_loop_seconds - d without an overrun log;
\* d >= min_loop_seconds makes it log an overrun and go to the loop check
\* without sleeping.
C3_SleepRemainderOrOverrun ==
    timing_log # "none" =>
        /\ (pc = "sleep" \/ (pc = "loop" /\ ~slept)) =>
               duration = now - start_time
        /\ IF duration < min_loop_seconds
           THEN /\ timing_log = "sleeping"
                /\ sleep_time = min_loop_seconds - duration
                /\ pc = "loop" => slept
                /\ pc \in {"sleep", "loop"} \/ RunLeft
           ELSE /\ timing_log = "overrun"
                /\ ~slept
                /\ pc = "loop" \/ RunLeft

C3_Witness ==
    /\ timing_log = "overrun"
    /\ duration = min_loop_seconds
    /\ pc = "loop"
    /\ ~slept

\* C4: a stop signal never interrupts a tick in progress: no scan session
\* scope is unwound by the signal, and when run() has been left every tick
\* that was started has run to its end (its timing step).
C4_StopIsCooperative ==
    stop_requested =>
        /\ ~(scope = "in" /\ exc = "KeyboardInterrupt")
        /\ scope_exc # "KeyboardInterrupt"
        /\ (RunLeft /\ ticks > 0) => timing_log # "none"

\* C5: the loop of run() is left only once the state is STOPPED
\* (_running false), and a STOPPED daemon never becomes RUNNING again.
C5_LoopLeftOnlyWhenStopped ==
    /\ [](RunLeft => ~running)
    /\ [][~running => ~running']_vars

(***************************************************************************)
(* Properties of the scan session (Spec, FairSpec).                        *)
(***************************************************************************)
\* C6: on exit of a scan session scope exactly one of commit and abort is
\* called: commit iff no exception propagated through the scope, abort iff
\* one did, and that exception still propagates after the scope.
C6_ExactlyOneOfCommitAbort ==
    /\ scope \in {"out", "in"} => commit_calls = 0 /\ abort_calls = 0
    /\ scope = "exited" =>
        /\ commit_calls + abort_calls = 1
        /\ commit_calls = 1 <=> scope_exc = "none"
        /\ abort_calls = 1 <=> scope_exc # "none"
        /\ scope_exc # "none" => scope_result = "raised"

C6_Witness ==
    /\ scope = "exited"
    /\ scope_exc = "Exception"
    /\ abort_calls = 1
    /\ commit_calls = 0
    /\ scope_result = "raised"

\* C7: every session opened by a scan session scope has been released
\* (end_session called) once the scope has exited.
C7_SessionReleasedOnExit ==
    scope = "exited" => end_calls = 1 /\ open_sessions = 0

\* C8: when reading a collection's records raises in a tick, the tick's
\* transaction is aborted and never committed, run() is not left by the
\* error, and unless a stop was requested the next tick starts.
C8_ReadErrorAbortsAndContinues ==
    /\ [](read_error /\ scope = "exited" =>
            abort_calls = 1 /\ commit_calls = 0 /\ txn = "aborted")
    /\ [](read_error => pc # "crashed")
    /\ \A k \in 1..(MaxTicks - 1) :
         (read_error /\ pc = "exit" /\ ticks = k)
            ~> ((ticks = k + 1 /\ prev_tick.read_error) \/ stop_requested)

C8_Witness ==
    /\ ticks >= 2
    /\ prev_tick.read_error
    /\ prev_tick.caught
    /\ pc = "uow_init"
    /\ txn = "aborted"
    /\ commit_calls = 0

(***************************************************************************)
(* Properties of the buffer (SpecBuffer).                                  *)
(***************************************************************************)
\* C9: add_documents(docs) appends docs iff len(current) + len(docs) is
\* below the capacity; otherwise it raises and the buffer holds exactly
\* what it held before the call.
C9_AddIsAllOrNothing ==
    last_call.op = "add_documents" =>
        IF Len(last_call.before) + Len(last_call.arg)
              < PROCESS_MAX_RAG_DOCUMENTS
        THEN /\ ~last_call.raised
             /\ documents = last_call.before \o last_call.arg
        ELSE /\ last_call.raised
             /\ documents = last_call.before

C9_Witness ==
    /\ last_call.op = "add_documents"
    /\ last_call.raised
    /\ Len(last_call.before) > 0
    /\ Len(last_call.before) + Len(last_call.arg) = PROCESS_MAX_RAG_DOCUMENTS
    /\ documents = last_call.before

\* C10: after any sequence of add_documents, __add__, clear_documents and
\* vectorize on a buffer created empty, fewer than the capacity (500)
\* documents are buffered.
C10_BelowCapacity ==
    Len(documents) < PROCESS_MAX_RAG_DOCUMENTS

C10_Witness ==
    /\ Len(documents) = PROCESS_MAX_RAG_DOCUMENTS - 1
    /\ last_call.op = "__add__"
    /\ last_call.raised

(***************************************************************************)
(* Properties of CollectionProcessor.process and of the flush              *)
(***************************************************************************)
\* a record the spec counts as mappable: every field is there and the
\* amount is a number
Mappable(raw) == raw.complete /\ raw.amount_ok

RECURSIVE MappableIds(_)
MappableIds(raws) ==
    IF raws = <<>> THEN <<>>
    ELSE IF Mappable(Head(raws))
         THEN << Head(raws).id >> \o MappableIds(Tail(raws))
         ELSE MappableIds(Tail(raws))

C12_SkipsOnlyFailedRecords ==
    (proc.result \in {"returned", "raised"}
        /\ proc.error \notin {"read", "flush"}) =>
        /\ proc.result = "returned"
        /\ proc.flushed = MappableIds(proc.raws)

\* C13: a flush of a non-empty buffer issues at most one index-write call,
\* a flush that returns issues exactly one, and the call carries every
\* buffered unit in insertion order: no unit reaches the index without all
\* the others of its buffer in the same call.
C13_FlushIsOneWholeWrite ==
    (last_call.op = "vectorize" /\ last_call.before # <<>>) =>
        /\ last_call.wrote \in { <<>>, << last_call.before >> }
        /\ ~last_call.raised => last_call.wrote = << last_call.before >>

C13_Witness ==
    /\ last_call.op = "vectorize"
    /\ ~last_call.raised
    /\ Len(last_call.before) = 2
    /\ last_call.before[1] # last_call.before[2]
    /\ last_call.wrote = << last_call.before >>

\* C14: after a flush of a non-empty buffer that returned, the buffer is
\* empty.
C14_FlushClearsBuffer ==
    (last_call.op = "vectorize" /\ last_call.before # <<>>
        /\ ~last_call.raised) => documents = <<>>

\* C15: a flush of an empty buffer writes nothing to the index, raises no
\* error and leaves the buffer empty.
C15_EmptyFlushIsNoOp ==
    (last_call.op = "vectorize" /\ last_call.before = <<>>) =>
        /\ ~last_call.raised
        /\ last_call.wrote = <<>>
        /\ documents = <<>>

\* C16: a process call has not flushed while it is in its record loop, and
\* one that returned has flushed exactly once, after the last record was
\* handled.
C16_FlushOnceAtTheEnd ==
    /\ proc.flush_calls <= 1
    /\ proc.result = "running" => proc.flush_calls = 0
    /\ proc.flush_calls = 1 => proc.i = Len(proc.sources)
    /\ proc.result = "returned" => proc.flush_calls = 1

C16_Witness ==
    /\ proc.result = "returned"
    /\ Len(proc.sources) = 2
    /\ proc.i = 2
    /\ proc.skipped = 1
    /\ proc.flush_calls = 1
    /\ Len(proc.flushed) = 1

(***************************************************************************)
(* Properties of the cycle: discovery, processing order, session           *)
(***************************************************************************)
\* the names of the collections whose process call returned, in call order
ProcessedNames == [k \in 1..Len(processed) |-> processed[k].name]

\* the body of the with block ran to its end and __exit__ is about to commit
CycleAtCommit == pc = "exit" /\ exc = "none" /\ scope = "in"

\* C17: when a cycle that found exactly one collection, holding n mappable
\* records, reaches its commit, process has flushed exactly once and the
\* flush carried n units.
C17_OneFlushOfAllRecords ==
    (CycleAtCommit /\ Len(discovered) = 1) =>
        /\ Len(processed) = 1
        /\ processed[1].flush_calls = 1
        /\ Len(processed[1].flushed) = processed[1].records

\* C18: in a cycle, the collections processed so far followed by the ones
\* still to process are the discovered names in discovery order, a process
\* call is only made inside the open session, and a cycle that reaches its
\* commit has processed every discovered name exactly once.
C18_EveryCollectionOnceInOrder ==
    /\ (pc \in {"iterate", "process"}) =>
            ProcessedNames \o colls = discovered
    /\ (pc = "process" \/ processed # <<>>) =>
            (scope = "in" /\ commit_calls + abort_calls < ticks)
    /\ CycleAtCommit => ProcessedNames = discovered

C18_Witness ==
    /\ CycleAtCommit
    /\ Len(discovered) = 2
    /\ ProcessedNames = discovered

\* C19: list_collections and every process call of a tick run while the
\* transaction of the tick's session is active, after start_transaction
\* and before commit or abort.
C19_WorkOnlyInActiveTransaction ==
    (pc \in {"discover", "iterate", "process"}) =>
        /\ txn = "active"
        /\ scope = "in"
        /\ commit_calls + abort_calls < ticks

C19_Witness ==
    /\ pc = "process"
    /\ proc.result = "running"
    /\ proc.i = 1
    /\ txn = "active"
    /\ Len(processed) = 1

\* C20: at most one scan session is open at any time, and a tick starts its
\* session only after the session of the tick before was committed or
\* aborted.
C20_OneSessionAtATime ==
    /\ open_sessions <= 1
    /\ pc = "uow_init" => txn \in {"none", "committed", "aborted"}

(***************************************************************************)
(* Properties of the retry, the batch counter and the discovery            *)
(***************************************************************************)
InSeq(x, sq) == \E k \in 1..Len(sq) : sq[k] = x

\* the collections handed to process so far in this cycle: the ones whose
\* call returned and the one whose call is running or has raised
Attempted ==
    ProcessedNames \o
        (IF proc.caller = "daemon" /\ proc.result \in {"running", "raised"}
         THEN << Head(colls) >> ELSE <<>>)

C22_BatchNumberCountsCalls ==
    /\ [](batch_number = process_calls)
    /\ [](ticks = 0 => batch_number = 0)
    /\ [][batch_number' \in {batch_number, batch_number + 1}]_vars

C22_Witness ==
    /\ ticks = 2
    /\ batch_number = 3
    /\ proc.result = "raised"
    /\ proc.error = "read"

\* name starts with prefix
StartsWith(name, prefix) ==
    /\ Len(name) >= Len(prefix)
    /\ \A k \in 1..Len(prefix) : name[k] = prefix[k]

\* C24: what list_collections returned is the lake's listing restricted to
\* the names that start with the prefix, in the order of the listing; with
\* an empty prefix it is the whole listing.
C24_DiscoveryFiltersByPrefix ==
    (pc \in {"iterate", "process"}) =>
        LET match == { k \in 1..Len(listing) :
                          StartsWith(listing[k], collection_prefix) }
        IN /\ Len(discovered) = Cardinality(match)
           /\ \E f \in [1..Len(discovered) -> match] :
                /\ \A j, k \in 1..Len(discovered) : j < k => f[j] < f[k]
                /\ \A k \in 1..Len(discovered) : discovered[k] = listing[f[k]]
           /\ collection_prefix = <<>> => discovered = listing

C24_Witness ==
    /\ pc = "iterate"
    /\ collection_prefix # <<>>
    /\ Len(listing) = 3
    /\ Len(discovered) = 2
    /\ discovered[1] = listing[1]
    /\ discovered[2] = listing[3]

\* process raised in this cycle and the scope is about to be left
ProcessFailedInCycle ==
    /\ pc = "exit"
    /\ exc = "Exception"
    /\ proc.caller = "daemon"
    /\ proc.result = "raised"

C23_CursorClosedOnEveryExit ==
    (proc.result \in {"returned", "raised"}) => proc.cursor = "closed"


(***************************************************************************)
(* Properties of the document builder, checked under SpecBuilder.          *)
(***************************************************************************)
\* build_langchain_document was called on a mapping and returned a Document
DocumentBuilt ==
    /\ built.op = "build_langchain_document"
    /\ ~built.result.raised

\* the record handed to the builder carries an identifier
CarriesId(source) ==
    IF IsMapping(source) THEN "_id" \in DOMAIN source.fields
    ELSE "id" \in DOMAIN source.fields

\* str(id) of the record handed to the builder
IdString(source) ==
    IF IsMapping(source) THEN source.fields["_id"].v ELSE source.fields["id"].v

\* C25: the Document built from a record without identifier field has a
\* metadata source_document_id that is one of the generated ids and is not
\* empty.
C25_GeneratedSourceId ==
    (DocumentBuilt /\ ~CarriesId(built.source)) =>
        LET metadata == built.result.document.metadata
        IN /\ "source_document_id" \in DOMAIN metadata
           /\ metadata["source_document_id"].v \in Uuids
           /\ metadata["source_document_id"].v # ""

\* C26: every value of the metadata produced, by build_document_metadata
\* called directly or through build_langchain_document, is a string, a
\* number or a boolean.
C26_MetadataValuesScalar ==
    /\ DocumentBuilt =>
          \A k \in DOMAIN built.result.document.metadata :
              built.result.document.metadata[k].t \in {"str", "num", "bool"}
    /\ (built.op = "build_document_metadata" /\ ~built.result.raised) =>
          \A k \in DOMAIN built.result.metadata :
              built.result.metadata[k].t \in {"str", "num", "bool"}

\* C27: build_langchain_document on a record that carries an identifier
\* returns a Document whose metadata has the collection passed in and the
\* string form of the identifier, and whose id is that string.
C27_IdentifierCarriedOver ==
    (built.op = "build_langchain_document" /\ CarriesId(built.source)) =>
        /\ ~built.result.raised
        /\ built.result.document.metadata["source_collection"]
              = Str(built.collection)
        /\ built.result.document.metadata["source_document_id"]
              = Str(IdString(built.source))
        /\ built.result.document.id = IdString(built.source)

\* C28 as stated: after build_langchain_document the record is as it was
\* before the call, identifier included.
C28_RecordUnchanged ==
    built.op = "build_langchain_document" =>
        built.result.source = built.source

\* C28: after build_langchain_document (returned or raised) the caller's
\* record has the fields it had before other than "_id", with the values
\* they had, and has no "_id" field if it is a mapping.
C28_RecordLosesOnlyIdentifier ==
    built.op = "build_langchain_document" =>
        LET before == built.source
            after == built.result.source
        IN /\ after.kind = before.kind
           /\ DOMAIN after.fields =
                 IF IsMapping(before) THEN DOMAIN before.fields \ {"_id"}
                 ELSE DOMAIN before.fields
           /\ \A f \in DOMAIN after.fields :
                 after.fields[f] = before.fields[f]

C28_Witness ==
    /\ DocumentBuilt
    /\ "_id" \in DOMAIN built.source.fields
    /\ "_id" \notin DOMAIN built.result.source.fields
    /\ "Details" \in DOMAIN built.result.source.fields

\* C29: build_document_content on a mapping without Amount, called directly
\* or through build_langchain_document, does not raise, renders the amount
\* as 0.00 and renders each of PostingDate, Description and Type that is
\* absent as N/A.
C29_MissingAmountRendered ==
    ( /\ built.op \in {"build_document_content", "build_langchain_document"}
      /\ IsMapping(built.source)
      /\ "Amount" \notin DOMAIN built.source.fields ) =>
        /\ ~built.result.raised
        /\ LET content == IF built.op = "build_document_content"
                          THEN built.result.content
                          ELSE built.result.document.page_content
           IN /\ content.Amount = "0.00"
              /\ \A f \in {"PostingDate", "Description", "Type"} :
                    f \notin DOMAIN built.source.fields => content[f] = "N/A"

C29_Witness ==
    /\ built.op = "build_document_content"
    /\ IsMapping(built.source)
    /\ DOMAIN built.source.fields = {"_id", "Description"}
    /\ ~built.result.raised
    /\ built.result.content.Amount = "0.00"
    /\ built.result.content.PostingDate = "N/A"
    /\ built.result.content.Type = "N/A"
    /\ built.result.content.Description = "WHOLEFDS"

(***************************************************************************)
(* Properties of the buffer of a process call, checked under SpecProcess.  *)
(***************************************************************************)
\* the identifiers of the records a call of process found
RecordIds(raws) == {raws[k].id : k \in 1..Len(raws)}

\* C31: a process call starts its record loop with an empty buffer, while it
\* runs the buffer holds one unit for every record handled that was neither
\* skipped nor rejected, each built from a record of this call, and what the
\* call flushes is that buffer.
C31_FreshBufferPerCall ==
    /\ (proc.result = "running" /\ proc.i = 0) => documents = <<>>
    /\ proc.result = "running" =>
          /\ Len(documents) = proc.i - proc.skipped - proc.rejected
          /\ {documents[k] : k \in 1..Len(documents)}
                \subseteq RecordIds(proc.raws)
    /\ proc.flush_calls = 1 =>
          /\ Len(proc.flushed) = proc.i - proc.skipped - proc.rejected
          /\ {proc.flushed[k] : k \in 1..Len(proc.flushed)}
                \subseteq RecordIds(proc.raws)

\* a call that followed one which raised with units in its buffer and no
\* flush has flushed the one unit of its own record
C31_Witness ==
    /\ proc.after_unflushed
    /\ proc.result = "returned"
    /\ proc.flush_calls = 1
    /\ proc.raws = << RawB >>
    /\ proc.flushed = << "b" >>

(***************************************************************************)
(* Properties of the data lake access, checked under SpecLake.             *)
(***************************************************************************)
\* C32: a construction of BabylonDocumentsManager that returned has returned
\* an instance that has a data-lake client.
C32_ReturnedManagerHasClient ==
    manager.last.result = "returned" => manager.datalake_client

\* C33: the factory has constructed at most one client, which is the cached
\* one; a get_client call on a factory with a cached client returns that
\* client and leaves the factory as it is, whatever config it is given; a
\* call on a factory without one raises ValueError when given no or an empty
\* config and caches nothing, and one that returns has cached the client it
\* returns.
C33_OneClientEver ==
    /\ [](factory.constructed <= 1 /\ factory.client = factory.constructed)
    /\ [][factory' # factory =>
            /\ factory.client # 0 =>
                  /\ factory'.client = factory.client
                  /\ factory'.config = factory.config
                  /\ factory'.constructed = factory.constructed
                  /\ factory'.last.result = "returned"
                  /\ factory'.last.client = factory.client
            /\ (factory.client = 0
                  /\ factory'.last.config \in {"none", "empty"}) =>
                  /\ factory'.last.result = "ValueError"
                  /\ factory'.client = 0
                  /\ factory'.constructed = factory.constructed
            /\ (factory.client = 0 /\ factory'.last.result = "returned") =>
                  /\ factory'.client = factory.constructed + 1
                  /\ factory'.last.client = factory'.client
                  /\ factory'.config = factory'.last.config]_vars

\* a call given another config than the one the client was built from has
\* returned the cached client
C33_Witness ==
    /\ factory.client = 1
    /\ factory.constructed = 1
    /\ factory.config = "a"
    /\ factory.last = [op |-> "get_client", config |-> "b",
                       result |-> "returned", client |-> 1]

\* C34: a Datalake on which close() was called or whose with-scope was left
\* has no client and no database handle; find and list_collections called
\* on it raise DatalakeError; a further close() changes nothing and returns.
C34_ClosedLakeHoldsNothing ==
    /\ [](lake.state = "closed" =>
            /\ ~lake.client
            /\ ~lake.db
            /\ lake.last.op \in {"find", "list_collections"} =>
                  lake.last.result = "DatalakeError")
    /\ [][(lake.state = "closed" /\ lake' # lake
              /\ lake'.last.op = "close") =>
            /\ lake'.client = lake.client
            /\ lake'.db = lake.db
            /\ lake'.last.result = "returned"]_vars

\* find was called on a Datalake whose client raised in close
C34_Witness ==
    /\ lake.state = "closed"
    /\ lake.close_raised
    /\ ~lake.client
    /\ lake.last = [op |-> "find", result |-> "DatalakeError"]

(***************************************************************************)
(* Derived metadata keys, checked under SpecBuilder.                       *)
(***************************************************************************)
\* the value build_document_metadata derives for key k from the record it
\* is given, the collection name and the source id passed in
Derived(k, source, collection, source_id) ==
    CASE k = "source_collection" -> Str(collection)
      [] k = "source_document_id" -> source_id
      [] k = "transaction_date" ->
            IF "PostingDate" \in DOMAIN source.fields
            THEN source.fields["PostingDate"] ELSE None
      [] k = "amount" ->
            IF "Amount" \in DOMAIN source.fields
            THEN source.fields["Amount"] ELSE None
      [] k = "type" ->
            IF "Type" \in DOMAIN source.fields
            THEN source.fields["Type"] ELSE None

\* the metadata is that of the derived keys: each has its derived value, or
\* is left out when the derived value is None, and no value is None
DerivedKept(metadata, source, collection, source_id) ==
    /\ \A k \in DerivedKeys :
          IF k \in DOMAIN metadata
          THEN metadata[k] = Derived(k, source, collection, source_id)
          ELSE Derived(k, source, collection, source_id) = None
    /\ \A k \in DOMAIN metadata : metadata[k] # None

\* C35: the metadata build_document_metadata returns, called directly or by
\* build_langchain_document, has under every derived key the derived value,
\* also when the record has a field of that name, and has no None value.
C35_DerivedKeysNotReplaced ==
    /\ (built.op = "build_document_metadata" /\ ~built.result.raised) =>
          DerivedKept(built.result.metadata, built.source, built.collection,
                      built.result.source_id)
    /\ DocumentBuilt =>
          DerivedKept(built.result.document.metadata, built.source,
                      built.collection,
                      IF "_id" \in DOMAIN built.source.fields
                      THEN Str(built.source.fields["_id"].v)
                      ELSE Str("None"))

\* a record with a field named amount next to its Amount
C35_Witness ==
    /\ built.op = "build_document_metadata"
    /\ ~built.result.raised
    /\ "amount" \in DOMAIN built.source.fields
    /\ built.source.fields["amount"] = Str("raw")
    /\ "Amount" \in DOMAIN built.source.fields
    /\ built.result.metadata["amount"] = built.source.fields["Amount"]

(***************************************************************************)
(* Properties of timeout_decorator, checked under SpecTimeout.             *)
(***************************************************************************)
\* C36: a guarded call made while the instance attribute is missing or is
\* not a positive number runs under default_seconds.
C36_InvalidTimeoutFallsBack ==
    ( /\ timer.pc = "running"
      /\ timer.guarded
      /\ ~ValidTimeout(timer.attribute) ) =>
        /\ timer.timeout_duration = default_seconds
        /\ timer.armed = default_seconds

\* C37: while no call of the wrapped method is in progress no alarm is
\* pending, and a call that ended by return or by exception left none.
C37_AlarmCancelledAtEnd ==
    timer.pc = "idle" => timer.alarm = 0

\* a call armed the alarm for the default and then raised before it was due
C37_Witness ==
    /\ timer.pc = "idle"
    /\ timer.guarded
    /\ timer.armed = default_seconds
    /\ timer.work = 2
    /\ timer.result = "raised"
    /\ timer.alarm = 0

(***************************************************************************)
(* Properties of DocumentsIter, checked under SpecIter.                    *)
(***************************************************************************)
\* C38: the k-th __next__ call on the iterator returns the document of the
\* k-th record of the cursor, and every call after the last record raises
\* StopIteration.
C38_IterationTerminates ==
    iter.calls > 0 =>
        IF iter.calls <= Len(iter.cursor)
        THEN /\ iter.last = "returned"
             /\ iter.returned = SubSeq(iter.cursor, 1, iter.calls)
        ELSE /\ iter.last = "StopIteration"
             /\ iter.returned = iter.cursor

====
